---- MODULE Spec2Model ----
(***************************************************************************)
(* Model of the performance examples of the TypeScript app scaffolding:    *)
(*   - features/virtualized-list/VirtualizedList.tsx: a list of 10,000     *)
(*     items windowed by the useVirtualizer hook of @tanstack/react-virtual*)
(*     (count = items.length, estimateSize = 80, overscan = 5) inside a    *)
(*     500px scroll container;                                             *)
(*   - features/search/SearchExample.tsx: a search box whose term is kept  *)
(*     in useState and mirrored by React's useDeferredValue.               *)
(* The component code only calls these two hooks.  What the hooks compute  *)
(* is modelled as the dependencies compute it (virtual-core's              *)
(* getMeasurements / calculateRange / defaultRangeExtractor / getTotalSize,*)
(* React 19's mountDeferredValue / updateDeferredValue), with the options  *)
(* the component passes.                                                   *)
(***************************************************************************)
EXTENDS Integers, Sequences, FiniteSets, TLC

VARIABLES
    \* ---- VirtualizedList ----
    count,          \* useVirtualizer option count (items.length)
    estimateSize,   \* useVirtualizer option estimateSize() (px per item)
    overscan,       \* useVirtualizer option overscan
    scrollOffset,   \* Viewport State: scrollTop of the element behind parentRef
    outerSize,      \* Viewport State: height of the element behind parentRef
    virtualItems,   \* virtualizer.getVirtualItems(): the indexes, in order
    totalSize,      \* virtualizer.getTotalSize(): the spacer's height in px
    threw,          \* TRUE when the last computation raised an error
    rendered,       \* the item elements drawn: index, top (translateY), height
    listItems,      \* which array `items` is: the one made at mount or a later one
    \* ---- SearchExample ----
    searchTerm,          \* useState value ("urgent")
    deferredSearchTerm,  \* useDeferredValue value ("deferred")
    deferredLane,        \* TRUE while a deferred re-render is scheduled
    rendering,           \* TRUE while that re-render is in progress
    wipSearchTerm,       \* searchTerm as read by the render in progress
    isPending,           \* the value of isPending in the committed render
    held,                \* history: every value searchTerm has held
    burst,               \* history: values set since the last deferred commit
    lastBurst,           \* history: burst as it was at the last deferred commit
    inputs,              \* number of input events so far
    discarded,           \* history: deferred renders thrown away unfinished
    searchItems,         \* which array `items` is: the one made at mount or a later one
    filteredItems,       \* the ids of filteredItems, in the order displayed
    \* ---- ErrorBoundary ----
    hasError,            \* this.state.hasError
    error,               \* this.state.error ("null" for null)
    onErrorProp,         \* whether the onError prop is given
    fallbackProp,        \* whether the fallback prop is given
    onErrorCalls,        \* number of calls of props.onError so far
    shown,               \* what render() returned: children, fallback or panel
    thrown,              \* history: the error last raised by a child's render
    boundaryOp,          \* history: the last step of the boundary
    \* ---- counter store and Counter ----
    storeCount,          \* useCounterStore state: count
    displayed,           \* the text Counter shows for {count}
    storage,             \* localStorage item 'counter-storage' (NoItem when unset)
    counterOp,           \* history: the last operation on the store
    prevOp,              \* history: the operation before it
    prevCount,           \* history: count before the last operation
    \* ---- focus management ----
    kinds,               \* the element's descendants in DOM order: kind of each
    activeElement,       \* document.activeElement (Outside: not in the element)
    listener,            \* handleKeyDown is registered on the element
    firstFocusable,      \* captured by trapFocus
    lastFocusable,       \* captured by trapFocus
    cleanupKind,         \* the cleanup function the caller holds
    lastKey,             \* history: the key of the last step, if it was a key
    keyFrom,             \* history: activeElement when that key was pressed
    \* ---- useLiveRegion ----
    message,             \* useState('')
    politeness,          \* useState('polite')
    timeoutRef,          \* timeoutRef.current (NoTimer: undefined)
    timers,              \* the browser's pending timeouts: [id, left]
    lrMounted,           \* the component using the hook is mounted
    lrShown,             \* LiveRegionComponent of the last render
    annSeq,              \* history: number of announce calls
    lastAnn,             \* history: arguments of the last announce
    annMounted,          \* history: the last announce was made while mounted
    elapsed,             \* history: ticks since the last announce
    alone,               \* history: no clear since the last announce
    autoCleared,         \* history: the last announce's timer has fired
    firedId,             \* history: id of the timer that fired last
    lrOp,                \* history: the last step of the live region
    \* ---- createFocusStore ----
    previouslyFocusedElement,  \* the closure's variable (NoEl: null)
    storeOp,             \* history: the last call on the focus store
    restoreHad,          \* history: the last restore found a stored element
    restoreCould,        \* history: that element could take focus then
    restoreAway,         \* history: the focus was on another element then
    restoreResult,       \* history: where the last restore left the focus
    \* ---- usePageTitle ----
    documentTitle,       \* document.title
    ptMounted,           \* per component: its effect is in place
    ptTitle,             \* per component: the title argument of its last render
    ptPrev,              \* per component: prevTitle of its effect closure
    baseTitle,           \* history: document.title when the first one mounted
    ptEver,              \* history: some component has mounted
    \* ---- OptimizedImage ----
    srcProp,             \* prop src
    priorityProp,        \* prop priority
    blurProp,            \* prop blurDataURL (NoBlur: not given)
    isLoaded,            \* useState(false)
    imageSrc,            \* useState(blurDataURL || src)
    preloads,            \* sources of the Image objects still loading
    mainPending,         \* the main <img> is loading its src attribute
    placeholderShown,    \* the blur placeholder <img> is rendered
    shimmerShown,        \* the shimmer <div> is rendered
    \* ---- SEO ----
    head,                \* document.head: the meta, link and script elements, in order
    seoRuns,             \* history: runs of the effect so far
    lastCreated,         \* history: elements the last run appended
    lastUpdated,         \* history: elements the last run found and wrote to
    \* ---- PerformanceMonitor ----
    dev,                 \* import.meta.env.DEV
    hasTiming,           \* window.performance is available
    pageLoaded,          \* the window's load event has been dispatched
    effectRuns,          \* runs of the component's effect so far
    webVitalsInits,      \* calls of initWebVitals
    importsPending,      \* calls of initWebVitals awaiting import('web-vitals')
    vitalsHandlers,      \* metric handlers registered (onCLS, onLCP, onINP, onFCP, onTTFB)
    vitalsErrors,        \* imports that failed and were logged with console.error
    loadListeners,       \* 'load' listeners the component has added to window
    summaryTimers,       \* pending setTimeout callbacks: ticks left for each
    perfCalls,           \* calls of logPerformanceSummary
    perfGroups           \* console groups logPerformanceSummary has printed

listVars == <<count, estimateSize, overscan, scrollOffset, outerSize,
              virtualItems, totalSize, threw, rendered, listItems>>
searchVars == <<searchTerm, deferredSearchTerm, deferredLane, rendering,
                wipSearchTerm, isPending, held, burst, lastBurst, inputs,
                discarded, searchItems, filteredItems>>
boundaryVars == <<hasError, error, onErrorProp, fallbackProp, onErrorCalls,
                  shown, thrown, boundaryOp>>
counterVars == <<storeCount, displayed, storage, counterOp, prevOp, prevCount>>
focusVars == <<kinds, activeElement, listener, firstFocusable, lastFocusable,
               cleanupKind, lastKey, keyFrom>>
liveVars == <<message, politeness, timeoutRef, timers, lrMounted, lrShown,
              annSeq, lastAnn, annMounted, elapsed, alone, autoCleared,
              firedId, lrOp>>
storeVars == <<previouslyFocusedElement, storeOp, restoreHad, restoreCould,
               restoreAway, restoreResult>>
titleVars == <<documentTitle, ptMounted, ptTitle, ptPrev, baseTitle, ptEver>>
imageVars == <<srcProp, priorityProp, blurProp, isLoaded, imageSrc, preloads,
               mainPending, placeholderShown, shimmerShown>>
seoVars == <<head, seoRuns, lastCreated, lastUpdated>>
perfVars == <<dev, hasTiming, pageLoaded, effectRuns, webVitalsInits,
              importsPending, vitalsHandlers, vitalsErrors, loadListeners, summaryTimers, perfCalls, perfGroups>>
vars == <<listVars, searchVars, boundaryVars, counterVars, focusVars, liveVars, storeVars, titleVars, imageVars, seoVars, perfVars>>

\* What a step of one part of the application leaves alone.
restOfList == <<searchVars, boundaryVars, counterVars, focusVars, liveVars, storeVars, titleVars, imageVars, seoVars, perfVars>>
restOfSearch == <<listVars, boundaryVars, counterVars, focusVars, liveVars, storeVars, titleVars, imageVars, seoVars, perfVars>>
restOfBoundary == <<searchVars, counterVars, focusVars, liveVars, storeVars, titleVars, imageVars, seoVars, perfVars>>
restOfCounter == <<listVars, searchVars, boundaryVars, focusVars, liveVars, storeVars, titleVars, imageVars, seoVars, perfVars>>
restOfFocus == <<listVars, searchVars, boundaryVars, counterVars, liveVars, storeVars, titleVars, imageVars, seoVars, perfVars>>
restOfLive == <<listVars, searchVars, boundaryVars, counterVars, focusVars, storeVars, titleVars, imageVars, seoVars, perfVars>>
\* (the focus store moves the focus itself)
restOfStore == <<listVars, searchVars, boundaryVars, counterVars, liveVars, titleVars, imageVars, seoVars, perfVars>>
restOfTitle == <<listVars, searchVars, boundaryVars, counterVars, focusVars, liveVars, storeVars, imageVars, seoVars, perfVars>>
restOfImage == <<listVars, searchVars, boundaryVars, counterVars, focusVars, liveVars, storeVars, titleVars, seoVars, perfVars>>
\* (the SEO effect writes document.title itself)
restOfSeo == <<listVars, searchVars, boundaryVars, counterVars, focusVars, liveVars, storeVars, imageVars, perfVars>>
restOfPerf == <<listVars, searchVars, boundaryVars, counterVars, focusVars, liveVars, storeVars, titleVars, imageVars, seoVars>>

(***************************************************************************)
(* Bounds of the model                                                     *)
(***************************************************************************)
MaxCount == 3       \* item counts 0..MaxCount, besides the component's 10000
MaxSize == 3        \* item sizes 1..MaxSize, besides the component's 80
MaxOverscan == 2    \* overscans 0..MaxOverscan, besides the component's 5
MaxOffset == 10     \* scroll offsets 0..MaxOffset, besides the scenario ones
MaxHeight == 5      \* container heights 0..MaxHeight, besides the 500px one
MaxInputs == 4      \* input events per behaviour of the search box
MaxStore == 3       \* the store's count stays within -MaxStore..MaxStore
MaxAmount == 2      \* incrementByAmount amounts -MaxAmount..MaxAmount
MaxEls == 3         \* descendants of the element a trap is installed on
MaxDuration == 2    \* announce durations -1..MaxDuration, in ticks
MaxAnnounces == 3   \* calls of announce per behaviour
MaxComps == 2       \* components that use usePageTitle
MaxRuns == 3        \* runs of the SEO effect per behaviour

(***************************************************************************)
(* Constants of the program                                                *)
(***************************************************************************)
ItemsLength == 10000     \* Array.from({ length: 10000 }, ...)
EstimateSizePx == 80     \* estimateSize: () => 80
OverscanItems == 5       \* overscan: 5
ContainerPx == 500       \* className="h-[500px] overflow-auto ..."

Max(a, b) == IF a >= b THEN a ELSE b
Min(a, b) == IF a <= b THEN a ELSE b

(***************************************************************************)
(* VirtualizedList: the windowing done by useVirtualizer                   *)
(***************************************************************************)

\* The measurements the virtualizer keeps: one per index 0..count-1 (none
\* when count <= 0).  The component attaches no measureElement ref, so every
\* item keeps its estimate: item i starts where item i-1 ends.
MeasurementsLengthInclusive(c) == Max(c + 1, 0)

MeasurementsLength(c) == Max(c, 0)
MeasurementStart(i, size) == i * size
MeasurementEnd(i, size) == MeasurementStart(i, size) + size

\* getTotalSize(): the end of the last measurement, 0 when there is none,
\* never negative.
GetTotalSizeLastStart(c, size) ==
    IF MeasurementsLength(c) = 0 THEN 0
    ELSE Max(MeasurementStart(MeasurementsLength(c) - 1, size), 0)

GetTotalSize(c, size) ==
    IF MeasurementsLength(c) = 0 THEN 0
    ELSE Max(MeasurementEnd(MeasurementsLength(c) - 1, size), 0)

\* findNearestBinarySearch(low, high, getOffset, value): the index whose
\* start is value, else the nearest index below the insertion point.
RECURSIVE FindNearestBinarySearch(_, _, _, _)
FindNearestBinarySearch(low, high, size, value) ==
    IF low <= high
    THEN LET middle == (low + high) \div 2
             currentValue == MeasurementStart(middle, size)
         IN  IF currentValue < value
             THEN FindNearestBinarySearch(middle + 1, high, size, value)
             ELSE IF currentValue > value
                  THEN FindNearestBinarySearch(low, middle - 1, size, value)
                  ELSE middle
    ELSE IF low > 0 THEN low - 1 ELSE 0

\* while (endIndex < lastIndex && measurements[endIndex].end < limit) endIndex++
RECURSIVE ExtendEndIndexInclusive(_, _, _, _)
ExtendEndIndexInclusive(endIndex, lastIndex, size, limit) ==
    IF endIndex < lastIndex /\ MeasurementEnd(endIndex, size) <= limit
    THEN ExtendEndIndexInclusive(endIndex + 1, lastIndex, size, limit)
    ELSE endIndex

RECURSIVE ExtendEndIndex(_, _, _, _)
ExtendEndIndex(endIndex, lastIndex, size, limit) ==
    IF endIndex < lastIndex /\ MeasurementEnd(endIndex, size) < limit
    THEN ExtendEndIndex(endIndex + 1, lastIndex, size, limit)
    ELSE endIndex

NoRange == [startIndex |-> -1, endIndex |-> -1, none |-> TRUE]

\* calculateRange: no range while there is nothing to measure or the scroll
\* element has no height yet; else the first item reaching the scroll
\* offset and the item reaching the bottom edge of the viewport.
CalculateRangeNoGuard(c, size, offset, outer) ==
    LET lastIndex == MeasurementsLength(c) - 1
        startIndex == FindNearestBinarySearch(0, lastIndex, size, offset)
    IN  [startIndex |-> startIndex,
         endIndex |-> ExtendEndIndex(startIndex, lastIndex, size, offset + outer),
         none |-> FALSE]

CalculateRange(c, size, offset, outer) ==
    IF MeasurementsLength(c) > 0 /\ outer > 0
    THEN LET lastIndex == MeasurementsLength(c) - 1
             startIndex == FindNearestBinarySearch(0, lastIndex, size, offset)
         IN  [startIndex |-> startIndex,
              endIndex |-> ExtendEndIndex(startIndex, lastIndex, size, offset + outer),
              none |-> FALSE]
    ELSE NoRange

\* defaultRangeExtractor: the range widened by overscan on both sides and
\* clamped to 0..count-1, as the list of its indexes.
IndexesFromTo(start, end) ==
    IF end < start THEN <<>> ELSE [k \in 1..(end - start + 1) |-> start + k - 1]

DefaultRangeExtractorUnclamped(range, ov, c) ==
    IndexesFromTo(Max(range.startIndex - ov, 0), range.endIndex + ov)

DefaultRangeExtractor(range, ov, c) ==
    IndexesFromTo(Max(range.startIndex - ov, 0), Min(range.endIndex + ov, c - 1))

\* getVirtualItems(): nothing without a range.
GetVirtualIndexes(c, size, offset, outer, ov) ==
    LET range == CalculateRange(c, size, offset, outer)
    IN  IF range.none THEN <<>> ELSE DefaultRangeExtractor(range, ov, c)

\* The element drawn for virtual item i: absolutely positioned, moved down by
\* virtualItem.start, virtualItem.size high.
RenderedItemAtEnd(i, size) ==
    [index |-> i, top |-> MeasurementEnd(i, size), height |-> size]

RenderedItem(i, size) ==
    [index |-> i, top |-> MeasurementStart(i, size), height |-> size]

\* getVirtualItems().map(...): one element per virtual item, none for an
\* index that items (of length c) does not hold.
RenderedItems(indexes, c, size) ==
    LET present == SelectSeq(indexes, LAMBDA i : i >= 0 /\ i < c)
    IN  [k \in 1..Len(present) |-> RenderedItem(present[k], size)]

\* const items = Array.from({ length: 10000 }, ...) in the component's body:
\* every render after the first makes the array anew.
ItemsOfRender(first) == IF first THEN "mount" ELSE "rerender"

\* One render of VirtualizedList: the virtualizer is read for the spacer's
\* height and for the items to draw.  No step of it raises an error.
RenderList(c, size, ov, offset, outer) ==
    /\ virtualItems' = GetVirtualIndexes(c, size, offset, outer, ov)
    /\ totalSize' = GetTotalSize(c, size)
    /\ threw' = FALSE
    /\ rendered' = RenderedItems(GetVirtualIndexes(c, size, offset, outer, ov),
                                 c, size)
    /\ listItems' = ItemsOfRender(FALSE)

\* The inputs: the component's own configuration (10000 items of 80px,
\* overscan 5, a 500px container) and every small configuration.
IsComponent(c) == c = ItemsLength
Counts == (0..MaxCount) \cup {ItemsLength}
Sizes(c) == IF IsComponent(c) THEN {EstimateSizePx} ELSE 1..MaxSize
Overscans(c) == IF IsComponent(c) THEN {OverscanItems} ELSE 0..MaxOverscan
ScenarioOffsets == {8000, 799500, 800000}
Offsets(c) == IF IsComponent(c) THEN (0..MaxOffset) \cup ScenarioOffsets ELSE 0..MaxOffset
Heights(c) == IF IsComponent(c) THEN {0, ContainerPx} ELSE 0..MaxHeight
BadCounts == (0 - MaxCount)..(0 - 1)
BadSizes == (0 - MaxSize)..0

ValidInput == count >= 0 /\ estimateSize > 0 /\ overscan >= 0

(***************************************************************************)
(* useCounterStore (zustand, persist middleware) and Counter               *)
(***************************************************************************)

\* The state creator's updates of count.
incrementTwice(n) == n + 2

increment(n) == n + 1

decrementClamped(n) == Max(n - 1, 0)

decrement(n) == n - 1

resetKeep(n) == n

reset(n) == 0

incrementByAmount(n, amount) == n + amount

\* <p>{count}</p>: the count as text.
CounterText(n) == ToString(n)

\* persist: options { name: 'counter-storage' }, so version is the default.
PersistVersion == 0
NoItem == [none |-> TRUE]

\* What persist writes after every set: the state without its functions,
\* and the version.
PersistedItemNextVersion(n) ==
    [none |-> FALSE, state |-> [count |-> n], version |-> PersistVersion + 1]

PersistedItem(n) ==
    [none |-> FALSE, state |-> [count |-> n], version |-> PersistVersion]

\* The count of a new store: the creator's 0, replaced by the stored state
\* when there is one of this version (no migrate function is given).
Rehydrate(item) ==
    IF item.none THEN 0
    ELSE IF item.version # PersistVersion THEN 0
    ELSE item.state.count

\* The store of a first visit: nothing stored, count 0.
CounterIdle ==
    /\ storeCount = Rehydrate(NoItem)
    /\ displayed = CounterText(Rehydrate(NoItem))
    /\ storage = NoItem
    /\ counterOp = "create"
    /\ prevOp = "none"
    /\ prevCount = 0

\* set(...) of the persisted store, then the re-render of Counter, which
\* subscribes to the whole state.
SetCount(op, n) ==
    /\ n >= 0 - MaxStore /\ n <= MaxStore
    /\ storeCount' = n
    /\ storage' = PersistedItem(n)
    /\ displayed' = CounterText(n)
    /\ counterOp' = op
    /\ prevOp' = counterOp
    /\ prevCount' = storeCount
    /\ UNCHANGED restOfCounter

ClickIncrement == SetCount("increment", increment(storeCount))
ClickDecrement == SetCount("decrement", decrement(storeCount))
ClickReset == SetCount("reset", reset(storeCount))
CallIncrementByAmount(amount) ==
    SetCount("incrementByAmount", incrementByAmount(storeCount, amount))

\* useCounterStore.setState({ count: n })
CallSetState(n) == SetCount("setState", n)

\* The page is loaded again: the store is created anew and rehydrated from
\* localStorage before Counter renders.
Reload ==
    /\ storeCount' = Rehydrate(storage)
    /\ displayed' = CounterText(Rehydrate(storage))
    /\ counterOp' = "reload"
    /\ prevOp' = counterOp
    /\ prevCount' = storeCount
    /\ UNCHANGED storage
    /\ UNCHANGED restOfCounter

(***************************************************************************)
(* Focus management utilities                                              *)
(***************************************************************************)

\* Kinds of descendant:
\*   "button"   <button>: matched by the selector list, reached by Tab
\*   "minus"    <button tabindex="-1">: matched by 'button:not([disabled])',
\*              takes focus by click or focus(), skipped by Tab
\*   "disabled" <button disabled>: not matched, takes no focus
Kinds == {"button", "minus", "disabled"}
Els == 1..MaxEls
Outside == 0
NoEl == 0 - 1

\* querySelectorAll(focusableSelectors), in document order (all descendants
\* are laid out and visible).
Matches(k) == k \in {"button", "minus"}

RECURSIVE QueryFrom(_, _)
QueryFrom(ks, i) ==
    IF i > Len(ks) THEN <<>>
    ELSE IF Matches(ks[i]) THEN <<i>> \o QueryFrom(ks, i + 1)
    ELSE QueryFrom(ks, i + 1)

getFocusableElements(ks) == QueryFrom(ks, 1)

\* The browser: what can hold focus, and what Tab stops at.
CanFocus(e, ks) == e = Outside \/ (e \in 1..Len(ks) /\ ks[e] # "disabled")
Tabbable(e, ks) == e \in 1..Len(ks) /\ ks[e] = "button"

\* el.focus()
FocusCall(target, active, ks) ==
    IF target # NoEl /\ CanFocus(target, ks) THEN target ELSE active

\* The default action of Tab / Shift+Tab from a descendant: the next or the
\* previous tab stop in document order; past the element's ends focus is
\* outside the element.
NextTabStop(active, ks) ==
    LET after == {j \in 1..Len(ks) : j > active /\ Tabbable(j, ks)}
    IN  IF after = {} THEN Outside
        ELSE CHOOSE j \in after : \A k \in after : j <= k

PrevTabStop(active, ks) ==
    LET before == {j \in 1..Len(ks) : j < active /\ Tabbable(j, ks)}
    IN  IF before = {} THEN Outside
        ELSE CHOOSE j \in before : \A k \in before : j >= k

DefaultTab(shift, active, ks) ==
    IF shift THEN PrevTabStop(active, ks) ELSE NextTabStop(active, ks)

\* handleKeyDown for a Tab key: whether it prevents the default action.
HandleKeyDownPrevents(shift, active, first, last) ==
    IF shift THEN active = first ELSE active = last

\* ... and where it sends the focus when it does.
HandleKeyDownTarget(shift, first, last) == IF shift THEN last ELSE first

\* No element of the page uses the utilities yet.
FocusIdle ==
    /\ kinds = [i \in Els |-> "button"]
    /\ activeElement = Outside
    /\ listener = FALSE
    /\ firstFocusable = NoEl
    /\ lastFocusable = NoEl
    /\ cleanupKind = "none"
    /\ lastKey = "none"
    /\ keyFrom = Outside

\* trapFocus(element); the caller keeps the returned cleanup.
TrapFocus ==
    /\ cleanupKind = "none"
    /\ LET focusableElements == getFocusableElements(kinds)
       IN  IF Len(focusableElements) = 0
           THEN /\ cleanupKind' = "noop"
                /\ UNCHANGED <<listener, firstFocusable, lastFocusable>>
           ELSE /\ firstFocusable' = focusableElements[1]
                /\ lastFocusable' = focusableElements[Len(focusableElements)]
                /\ listener' = TRUE
                /\ cleanupKind' = "remove"
    /\ lastKey' = "none"
    /\ UNCHANGED <<kinds, activeElement, keyFrom>>
    /\ UNCHANGED restOfFocus

\* element.removeEventListener('keydown', handleKeyDown), or () => {}
KeepListener(kind, registered) == registered

RemoveListener(kind, registered) ==
    IF kind = "remove" THEN FALSE ELSE registered

\* The cleanup function is called.
Cleanup ==
    /\ cleanupKind # "none"
    /\ listener' = RemoveListener(cleanupKind, listener)
    /\ cleanupKind' = "none"
    /\ lastKey' = "none"
    /\ UNCHANGED <<kinds, activeElement, firstFocusable, lastFocusable, keyFrom>>
    /\ UNCHANGED restOfFocus

\* Tab (shift = FALSE) or Shift+Tab is pressed while a descendant has focus:
\* the keydown event reaches the element's listener, then the default action
\* runs unless prevented.
KeyTab(shift) ==
    /\ activeElement \in Els
    /\ activeElement' =
           IF listener /\ HandleKeyDownPrevents(shift, activeElement,
                                                firstFocusable, lastFocusable)
           THEN FocusCall(HandleKeyDownTarget(shift, firstFocusable, lastFocusable),
                          activeElement, kinds)
           ELSE DefaultTab(shift, activeElement, kinds)
    /\ lastKey' = IF shift THEN "ShiftTab" ELSE "Tab"
    /\ keyFrom' = activeElement
    /\ UNCHANGED <<kinds, listener, firstFocusable, lastFocusable, cleanupKind>>
    /\ UNCHANGED restOfFocus

\* Focus moves by a click or by script, to a descendant or out of the element.
Focus(e) ==
    /\ CanFocus(e, kinds)
    /\ e # activeElement
    /\ activeElement' = e
    /\ lastKey' = "none"
    /\ UNCHANGED <<kinds, listener, firstFocusable, lastFocusable, cleanupKind,
                   keyFrom>>
    /\ UNCHANGED restOfFocus

\* The element's children are rendered again ({children} of the Modal): a
\* descendant other than the focused one changes kind.
ChildrenChange(e, k) ==
    /\ e # activeElement
    /\ kinds[e] # k
    /\ kinds' = [kinds EXCEPT ![e] = k]
    /\ lastKey' = "none"
    /\ UNCHANGED <<activeElement, listener, firstFocusable, lastFocusable,
                   cleanupKind, keyFrom>>
    /\ UNCHANGED restOfFocus

(***************************************************************************)
(* useLiveRegion                                                           *)
(***************************************************************************)
Messages == {"", "saved", "failed"}
Politenesses == {"polite", "assertive"}
Durations == (0 - 1)..MaxDuration
NoTimer == 0
NoAnnounce == [m |-> "", p |-> "polite", d |-> 0]

\* const LiveRegionComponent = message ? <LiveRegion .../> : null
LiveRegionComponent(m, p) ==
    IF m # "" THEN [message |-> m, politeness |-> p] ELSE [message |-> "null"]

\* if (duration > 0) timeoutRef.current = setTimeout(...)
SchedulesAlways(d) == TRUE

Schedules(d) == d > 0

\* if (timeoutRef.current) clearTimeout(timeoutRef.current)
ClearTimeout(ts, ref) ==
    IF ref # NoTimer THEN {t \in ts : t.id # ref} ELSE ts

LiveIdle ==
    /\ message = ""
    /\ politeness = "polite"
    /\ timeoutRef = NoTimer
    /\ timers = {}
    /\ lrMounted = TRUE
    /\ lrShown = LiveRegionComponent("", "polite")
    /\ annSeq = 0
    /\ lastAnn = NoAnnounce
    /\ annMounted = TRUE
    /\ elapsed = 0
    /\ alone = FALSE
    /\ autoCleared = FALSE
    /\ firedId = NoTimer
    /\ lrOp = "none"

\* announce(newMessage, newPoliteness, duration).  The function closes over
\* the setters and the ref, so a handler can still call it after the
\* component has unmounted (the state setters then do nothing).
Announce(m, p, d) ==
    /\ annSeq < MaxAnnounces
    /\ annSeq' = annSeq + 1
    /\ IF lrMounted
       THEN /\ message' = m
            /\ politeness' = p
            /\ lrShown' = LiveRegionComponent(m, p)
       ELSE UNCHANGED <<message, politeness, lrShown>>
    /\ IF Schedules(d)
       THEN /\ timers' = ClearTimeout(timers, timeoutRef)
                            \cup {[id |-> annSeq + 1, left |-> Max(d, 0)]}
            /\ timeoutRef' = annSeq + 1
       ELSE /\ timers' = ClearTimeout(timers, timeoutRef)
            /\ UNCHANGED timeoutRef
    /\ lastAnn' = [m |-> m, p |-> p, d |-> d]
    /\ annMounted' = lrMounted
    /\ elapsed' = 0
    /\ alone' = TRUE
    /\ autoCleared' = FALSE
    /\ lrOp' = "announce"
    /\ UNCHANGED <<lrMounted, firedId>>
    /\ UNCHANGED restOfLive

\* clear()
ClearMessage ==
    /\ IF lrMounted
       THEN /\ message' = ""
            /\ lrShown' = LiveRegionComponent("", politeness)
       ELSE UNCHANGED <<message, lrShown>>
    /\ timers' = ClearTimeout(timers, timeoutRef)
    /\ alone' = FALSE
    /\ lrOp' = "clear"
    /\ UNCHANGED <<politeness, timeoutRef, lrMounted, annSeq, lastAnn,
                   annMounted, elapsed, autoCleared, firedId>>
    /\ UNCHANGED restOfLive

\* One tick of time passes; a timeout that is due runs before the next tick.
Tick ==
    /\ \A t \in timers : t.left > 0
    /\ elapsed <= MaxDuration
    /\ timers' = {[id |-> t.id, left |-> t.left - 1] : t \in timers}
    /\ elapsed' = elapsed + 1
    /\ lrOp' = "tick"
    /\ UNCHANGED <<message, politeness, timeoutRef, lrMounted, lrShown, annSeq,
                   lastAnn, annMounted, alone, autoCleared, firedId>>
    /\ UNCHANGED restOfLive

\* A timeout runs: () => { setMessage('') }
TimeoutFires(id) ==
    /\ [id |-> id, left |-> 0] \in timers
    /\ timers' = timers \ {[id |-> id, left |-> 0]}
    /\ IF lrMounted
       THEN /\ message' = ""
            /\ lrShown' = LiveRegionComponent("", politeness)
       ELSE UNCHANGED <<message, lrShown>>
    /\ firedId' = id
    /\ autoCleared' = (id = annSeq)
    /\ lrOp' = "fire"
    /\ UNCHANGED <<politeness, timeoutRef, lrMounted, annSeq, lastAnn,
                   annMounted, elapsed, alone>>
    /\ UNCHANGED restOfLive

\* The component unmounts: the effect's cleanup runs.
UnmountLive ==
    /\ lrMounted
    /\ lrMounted' = FALSE
    /\ timers' = ClearTimeout(timers, timeoutRef)
    /\ lrShown' = LiveRegionComponent("", politeness)
    /\ lrOp' = "unmount"
    /\ UNCHANGED <<message, politeness, timeoutRef, annSeq, lastAnn, annMounted,
                   elapsed, alone, autoCleared, firedId>>
    /\ UNCHANGED restOfLive

(***************************************************************************)
(* createFocusStore                                                        *)
(***************************************************************************)
\* previouslyFocusedElement = null, after the focus() call of restore
RememberAfterRestore(prev) == prev

ForgetAfterRestore(prev) == NoEl

StoreIdle ==
    /\ previouslyFocusedElement = NoEl
    /\ storeOp = "none"
    /\ restoreHad = FALSE
    /\ restoreCould = FALSE
    /\ restoreAway = FALSE
    /\ restoreResult = "none"

\* store()
StoreFocus ==
    /\ previouslyFocusedElement' = activeElement
    /\ storeOp' = "store"
    /\ UNCHANGED <<restoreHad, restoreCould, restoreAway, restoreResult>>
    /\ lastKey' = "none"
    /\ UNCHANGED <<kinds, activeElement, listener, firstFocusable, lastFocusable,
                   cleanupKind, keyFrom>>
    /\ UNCHANGED restOfStore

\* restore()
RestoreFocus ==
    /\ IF previouslyFocusedElement # NoEl
       THEN /\ activeElement' =
                   FocusCall(previouslyFocusedElement, activeElement, kinds)
            /\ previouslyFocusedElement' =
                   ForgetAfterRestore(previouslyFocusedElement)
       ELSE UNCHANGED <<activeElement, previouslyFocusedElement>>
    /\ storeOp' = "restore"
    /\ restoreHad' = (previouslyFocusedElement # NoEl)
    /\ restoreCould' = (/\ previouslyFocusedElement # NoEl
                        /\ CanFocus(previouslyFocusedElement, kinds))
    /\ restoreAway' = (activeElement # previouslyFocusedElement)
    /\ restoreResult' =
           IF activeElement' = previouslyFocusedElement THEN "stored"
           ELSE IF activeElement' = activeElement THEN "stayed"
           ELSE "other"
    /\ lastKey' = "none"
    /\ UNCHANGED <<kinds, listener, firstFocusable, lastFocusable, cleanupKind,
                   keyFrom>>
    /\ UNCHANGED restOfStore

(***************************************************************************)
(* usePageTitle                                                            *)
(***************************************************************************)
Comps == 1..MaxComps
PageTitles == {"Home", "About"}
SiteTitle == "App"
NoTitle == "none"

\* The effect: const prevTitle = document.title; document.title = title
EffectPrevTitle(current) == current

\* The effect's cleanup: document.title = prevTitle
CleanupTitle(prev, current) == prev

TitleIdle ==
    /\ documentTitle = SiteTitle
    /\ ptMounted = [c \in Comps |-> FALSE]
    /\ ptTitle = [c \in Comps |-> NoTitle]
    /\ ptPrev = [c \in Comps |-> NoTitle]
    /\ baseTitle = SiteTitle
    /\ ptEver = FALSE

\* A component calling usePageTitle(t) mounts: its effect runs.
MountTitle(c, t) ==
    /\ ~ptMounted[c]
    /\ ptMounted' = [ptMounted EXCEPT ![c] = TRUE]
    /\ ptTitle' = [ptTitle EXCEPT ![c] = t]
    /\ ptPrev' = [ptPrev EXCEPT ![c] = EffectPrevTitle(documentTitle)]
    /\ documentTitle' = t
    /\ baseTitle' = IF \A d \in Comps : ~ptMounted[d]
                    THEN documentTitle ELSE baseTitle
    /\ ptEver' = TRUE
    /\ UNCHANGED restOfTitle

\* A mounted component renders with another title: the cleanup of the old
\* effect runs, then the effect runs again.
ChangeTitle(c, t) ==
    /\ ptMounted[c]
    /\ t # ptTitle[c]
    /\ LET afterCleanup == CleanupTitle(ptPrev[c], documentTitle)
       IN  /\ ptPrev' = [ptPrev EXCEPT ![c] = EffectPrevTitle(afterCleanup)]
           /\ documentTitle' = t
    /\ ptTitle' = [ptTitle EXCEPT ![c] = t]
    /\ UNCHANGED <<ptMounted, baseTitle, ptEver>>
    /\ UNCHANGED restOfTitle

\* A component unmounts: the cleanup of its effect runs.
UnmountTitle(c) ==
    /\ ptMounted[c]
    /\ documentTitle' = CleanupTitle(ptPrev[c], documentTitle)
    /\ ptMounted' = [ptMounted EXCEPT ![c] = FALSE]
    /\ ptTitle' = [ptTitle EXCEPT ![c] = NoTitle]
    /\ ptPrev' = [ptPrev EXCEPT ![c] = NoTitle]
    /\ UNCHANGED <<baseTitle, ptEver>>
    /\ UNCHANGED restOfTitle

(***************************************************************************)
(* OptimizedImage                                                          *)
(***************************************************************************)
Srcs == {"a.jpg", "b.jpg"}
BlurURL == "data:blur"
NoBlur == ""
Blurs == {NoBlur, BlurURL}

\* useState(blurDataURL || src)
InitialImageSrc(blur, src) == IF blur # NoBlur THEN blur ELSE src

\* {blurDataURL && !isLoaded && <img .../>}
PlaceholderRendered(blur, loaded) == blur # NoBlur /\ ~loaded

\* {!isLoaded && <div .../>}
ShimmerRendered(loaded) == ~loaded

\* The effect with [src, priority, onLoad]: if (priority) new Image().src = src
EffectPreloads(pending, src, priority) ==
    IF priority THEN pending \cup {src} ELSE pending

ImageIdle ==
    /\ srcProp = "a.jpg"
    /\ priorityProp = FALSE
    /\ blurProp = NoBlur
    /\ isLoaded = FALSE
    /\ imageSrc = InitialImageSrc(NoBlur, "a.jpg")
    /\ preloads = {}
    /\ mainPending = TRUE
    /\ placeholderShown = PlaceholderRendered(NoBlur, FALSE)
    /\ shimmerShown = ShimmerRendered(FALSE)

\* The main <img> fires load for its src attribute: handleLoad.
MainImageLoads ==
    /\ mainPending
    /\ mainPending' = FALSE
    /\ isLoaded' = TRUE
    /\ placeholderShown' = PlaceholderRendered(blurProp, TRUE)
    /\ shimmerShown' = ShimmerRendered(TRUE)
    /\ UNCHANGED <<srcProp, priorityProp, blurProp, imageSrc, preloads>>
    /\ UNCHANGED restOfImage

\* An Image object made by the effect fires load: img.onload, which closes
\* over the src it was made for.  The main <img> loads again when its src
\* attribute changes.
PreloadLoads(src) ==
    /\ src \in preloads
    /\ preloads' = preloads \ {src}
    /\ imageSrc' = src
    /\ isLoaded' = TRUE
    /\ mainPending' = (mainPending \/ imageSrc # src)
    /\ placeholderShown' = PlaceholderRendered(blurProp, TRUE)
    /\ shimmerShown' = ShimmerRendered(TRUE)
    /\ UNCHANGED <<srcProp, priorityProp, blurProp>>
    /\ UNCHANGED restOfImage

\* The parent renders the component with other props (onLoad kept): the
\* state is kept, and the effect runs again if src or priority changed.
RenderImage(src, priority, blur) ==
    /\ <<src, priority, blur>> # <<srcProp, priorityProp, blurProp>>
    /\ srcProp' = src
    /\ priorityProp' = priority
    /\ blurProp' = blur
    /\ preloads' = IF src # srcProp \/ priority # priorityProp
                   THEN EffectPreloads(preloads, src, priority)
                   ELSE preloads
    /\ placeholderShown' = PlaceholderRendered(blur, isLoaded)
    /\ shimmerShown' = ShimmerRendered(isLoaded)
    /\ UNCHANGED <<isLoaded, imageSrc, mainPending>>
    /\ UNCHANGED restOfImage

(***************************************************************************)
(* SearchExample: the dataset and the filter                               *)
(***************************************************************************)
\* Array.from({ length: 10000 }, ...); .slice(0, 100)
DatasetLength == 10000
SliceLimit == 100

\* The values typed into the search box, and their characters.
TermList == <<"", "ITEM 1", "r item 999">>

TermChars(t) ==
    CASE t = "" -> <<>>
      [] t = "ITEM 1" -> <<"I", "T", "E", "M", " ", "1">>
      [] t = "r item 999" -> <<"r", " ", "i", "t", "e", "m", " ", "9", "9", "9">>

\* `${i}`: the decimal digits of i.
DigitChar(d) == <<"0", "1", "2", "3", "4", "5", "6", "7", "8", "9">>[d + 1]

RECURSIVE Digits(_)
Digits(n) ==
    IF n < 10 THEN <<DigitChar(n)>>
    ELSE Digits(n \div 10) \o <<DigitChar(n % 10)>>

\* name: `Item ${i}`, description: `Description for item ${i}`
ItemName(i) == <<"I", "t", "e", "m", " ">> \o Digits(i)

ItemDescription(i) ==
    <<"D", "e", "s", "c", "r", "i", "p", "t", "i", "o", "n", " ",
      "f", "o", "r", " ", "i", "t", "e", "m", " ">> \o Digits(i)

\* String.prototype.toLowerCase, on the letters that occur.
LowerOf(c) ==
    CASE c = "I" -> "i" [] c = "T" -> "t" [] c = "E" -> "e" [] c = "M" -> "m"
      [] c = "D" -> "d" [] c = "R" -> "r" [] OTHER -> c

KeepCase(q) == q

ToLowerCase(q) == [k \in 1..Len(q) |-> LowerOf(q[k])]

\* String.prototype.includes
Includes(q, sub) ==
    \E k \in 0..(Len(q) - Len(sub)) : \A j \in 1..Len(sub) : q[k + j] = sub[j]

\* The filter's predicate.
ItemMatches(i, t) ==
    \/ Includes(ToLowerCase(ItemName(i)), ToLowerCase(TermChars(t)))
    \/ Includes(ToLowerCase(ItemDescription(i)), ToLowerCase(TermChars(t)))

\* items, by id.
ItemIds == [k \in 1..DatasetLength |-> k - 1]

\* The body of the filteredItems memo for a deferred term t.
FilteredItemsOf(t) ==
    IF t = ""
    THEN SubSeq(ItemIds, 1, Min(DatasetLength, SliceLimit))
    ELSE LET kept == SelectSeq(ItemIds, LAMBDA i : ItemMatches(i, t))
         IN  SubSeq(kept, 1, Min(Len(kept), SliceLimit))

\* The memo's values for the terms that can be typed (the filter is a
\* function of the term alone, the array of items being the one of mount).
FilteredTable == [k \in 1..Len(TermList) |-> FilteredItemsOf(TermList[k])]
TermIndex(t) == CHOOSE k \in 1..Len(TermList) : TermList[k] = t

\* useMemo(..., [deferredSearchTerm, items]): computed again only when the
\* deferred term has changed.
UseMemoFiltered(prev, prevTerm, term) ==
    IF term = prevTerm THEN prev ELSE FilteredTable[TermIndex(term)]

(***************************************************************************)
(* SEO                                                                    *)
(***************************************************************************)
\* Prop values: the empty string stands for a prop that is not given.
SeoValues == {"v1", "v2"}
NoJsonLd == [given |-> FALSE]

\* The props of four kinds of page, every given string prop being v.
SeoProps(kind, v) ==
    LET basic == kind \in {"basic", "article", "full"}
        article == kind \in {"article", "full"}
        full == kind = "full"
    IN  [title |-> IF basic THEN v ELSE "",
         description |-> IF basic THEN v ELSE "",
         keywords |-> IF article THEN v ELSE "",
         canonical |-> IF article THEN v ELSE "",
         ogImage |-> IF article THEN v ELSE "",
         ogType |-> IF article THEN "article" ELSE "website",
         twitterCard |-> "summary_large_image",
         twitterCreator |-> IF full THEN v ELSE "",
         publishedTime |-> IF article THEN v ELSE "",
         modifiedTime |-> IF full THEN v ELSE "",
         author |-> IF article THEN v ELSE "",
         robots |-> IF full THEN v ELSE "",
         jsonLd |-> IF full THEN [given |-> TRUE, type |-> v] ELSE NoJsonLd]

SeoKinds == {"bare", "basic", "article", "full"}

\* JSON.stringify(jsonLd)
JsonStringify(o) == <<"{", "@type", ":", o.type, "}">>

Meta(attribute, selector, content) ==
    [tag |-> "meta", attribute |-> attribute, selector |-> selector,
     content |-> content]

\* The writes of one run of the effect, in the order of the code; a write
\* whose condition is false is left out.
Only(cond, w) == IF cond THEN <<w>> ELSE <<>>

SeoWrites(p) ==
    Only(p.description # "", Meta("name", "description", p.description))
    \o Only(p.description # "", Meta("property", "og:description", p.description))
    \o Only(p.description # "", Meta("name", "twitter:description", p.description))
    \o Only(p.keywords # "", Meta("name", "keywords", p.keywords))
    \o Only(p.author # "", Meta("name", "author", p.author))
    \o Only(p.robots # "", Meta("name", "robots", p.robots))
    \o Only(p.canonical # "",
            [tag |-> "link", attribute |-> "rel", selector |-> "canonical",
             content |-> p.canonical])
    \o Only(p.title # "", Meta("property", "og:title", p.title))
    \o Only(p.title # "", Meta("name", "twitter:title", p.title))
    \o Only(p.canonical # "", Meta("property", "og:url", p.canonical))
    \o Only(p.canonical # "", Meta("name", "twitter:url", p.canonical))
    \o <<Meta("property", "og:type", p.ogType)>>
    \o Only(p.ogImage # "", Meta("property", "og:image", p.ogImage))
    \o Only(p.ogImage # "", Meta("name", "twitter:image", p.ogImage))
    \o <<Meta("name", "twitter:card", p.twitterCard)>>
    \o Only(p.twitterCreator # "", Meta("name", "twitter:creator", p.twitterCreator))
    \o Only(p.publishedTime # "",
            Meta("property", "article:published_time", p.publishedTime))
    \o Only(p.modifiedTime # "",
            Meta("property", "article:modified_time", p.modifiedTime))
    \o Only(p.author # "" /\ p.ogType = "article",
            Meta("property", "article:author", p.author))
    \o Only(p.jsonLd.given,
            [tag |-> "script", attribute |-> "data-dynamic",
             selector |-> "application/ld+json",
             content |-> JsonStringify(p.jsonLd)])

\* document.querySelector(...): the positions of the elements that match.
SameElement(e, w) ==
    e.tag = w.tag /\ e.attribute = w.attribute /\ e.selector = w.selector

Found(h, w) == {k \in 1..Len(h) : SameElement(h[k], w)}

\* updateMetaTag, and the same pattern for the link and the script: write
\* to the first element found, or create one and append it.
UpsertAlwaysCreates(h, w) == Append(h, w)

Upsert(h, w) ==
    IF Found(h, w) = {}
    THEN Append(h, w)
    ELSE LET k == CHOOSE i \in Found(h, w) : \A j \in Found(h, w) : i <= j
         IN  [h EXCEPT ![k].content = w.content]

RECURSIVE ApplyWrites(_, _)
ApplyWrites(h, ws) ==
    IF ws = <<>> THEN h ELSE ApplyWrites(Upsert(h, Head(ws)), Tail(ws))

\* index.html as served: no element of the kinds the component writes.
SeoIdle ==
    /\ head = <<>>
    /\ seoRuns = 0
    /\ lastCreated = 0
    /\ lastUpdated = 0

\* The effect of a SEO component runs (on mount, or after a prop changed).
SeoEffect(p) ==
    /\ seoRuns < MaxRuns
    /\ documentTitle' = IF p.title # "" THEN p.title ELSE documentTitle
    /\ head' = ApplyWrites(head, SeoWrites(p))
    /\ seoRuns' = seoRuns + 1
    /\ lastCreated' = Len(head') - Len(head)
    /\ lastUpdated' = Len(SeoWrites(p)) - (Len(head') - Len(head))
    /\ UNCHANGED <<ptMounted, ptTitle, ptPrev, baseTitle, ptEver>>
    /\ UNCHANGED restOfSeo

(***************************************************************************)
(* PerformanceMonitor                                                      *)
(***************************************************************************)
\* setTimeout(..., 1000), in ticks of the clock of this model.
SummaryDelay == 2

\* React.StrictMode runs the effects of a newly mounted component a second
\* time in development builds, and once in production builds.
StrictModeRuns(d) == IF d THEN 2 ELSE 1

RECURSIVE NewTimers(_)
NewTimers(n) == IF n = 0 THEN <<>> ELSE Append(NewTimers(n - 1), SummaryDelay)

PerfIdle ==
    /\ dev = FALSE
    /\ hasTiming = FALSE
    /\ pageLoaded = FALSE
    /\ effectRuns = 0
    /\ webVitalsInits = 0
    /\ importsPending = 0
    /\ vitalsHandlers = 0
    /\ vitalsErrors = 0
    /\ loadListeners = 0
    /\ summaryTimers = <<>>
    /\ perfCalls = 0
    /\ perfGroups = 0

\* The effect body: initWebVitals() and window.addEventListener('load', ...).
\* The effect returns no cleanup, so a listener once added stays.
PerfEffect ==
    /\ webVitalsInits' = webVitalsInits + 1
    /\ importsPending' = importsPending + 1
    /\ UNCHANGED <<vitalsHandlers, vitalsErrors>>
    /\ loadListeners' = loadListeners + 1
    /\ effectRuns' = effectRuns + 1
    /\ UNCHANGED <<dev, hasTiming, pageLoaded, summaryTimers, perfCalls, perfGroups>>
    /\ UNCHANGED restOfPerf

\* The five metrics initWebVitals registers reportMetric for.
VitalsMetrics == {"CLS", "LCP", "INP", "FCP", "TTFB"}

\* import('web-vitals') of one call of initWebVitals settles: the handlers
\* are registered, or the failure is caught and logged.
WebVitalsImportSettles(ok) ==
    /\ importsPending > 0
    /\ importsPending' = importsPending - 1
    /\ vitalsHandlers' =
           IF ok THEN vitalsHandlers + Cardinality(VitalsMetrics) ELSE vitalsHandlers
    /\ vitalsErrors' = IF ok THEN vitalsErrors ELSE vitalsErrors + 1
    /\ UNCHANGED <<dev, hasTiming, pageLoaded, effectRuns, webVitalsInits,
                   loadListeners, summaryTimers, perfCalls, perfGroups>>
    /\ UNCHANGED restOfPerf

\* The component mounts and React runs its effect.
MountPerf ==
    /\ effectRuns = 0
    /\ PerfEffect

\* StrictMode runs the effect of the mounted component again.
StrictModeRerun ==
    /\ effectRuns > 0
    /\ effectRuns < StrictModeRuns(dev)
    /\ PerfEffect

\* The window's load event: dispatched once, to the listeners added so
\* far; each of them starts a timer.
WindowLoad ==
    /\ ~pageLoaded
    /\ pageLoaded' = TRUE
    /\ summaryTimers' = summaryTimers \o NewTimers(loadListeners)
    /\ UNCHANGED <<dev, hasTiming, effectRuns, webVitalsInits, loadListeners,
                   importsPending, vitalsHandlers, vitalsErrors,
                   perfCalls, perfGroups>>
    /\ UNCHANGED restOfPerf

\* Time passes while no pending timer is due.
TickPerf ==
    /\ summaryTimers # <<>>
    /\ \A k \in 1..Len(summaryTimers) : summaryTimers[k] > 0
    /\ summaryTimers' = [k \in 1..Len(summaryTimers) |-> summaryTimers[k] - 1]
    /\ UNCHANGED <<dev, hasTiming, pageLoaded, effectRuns, webVitalsInits,
                   importsPending, vitalsHandlers, vitalsErrors,
                   loadListeners, perfCalls, perfGroups>>
    /\ UNCHANGED restOfPerf

\* The oldest due timer fires: in development it calls
\* logPerformanceSummary, which prints a group when the navigation timing
\* is available.
SummaryTimeoutFires ==
    /\ summaryTimers # <<>>
    /\ Head(summaryTimers) = 0
    /\ summaryTimers' = Tail(summaryTimers)
    /\ perfCalls' = IF dev THEN perfCalls + 1 ELSE perfCalls
    /\ perfGroups' = IF dev /\ hasTiming THEN perfGroups + 1 ELSE perfGroups
    /\ UNCHANGED <<dev, hasTiming, pageLoaded, effectRuns, webVitalsInits,
                   importsPending, vitalsHandlers, vitalsErrors, loadListeners>>
    /\ UNCHANGED restOfPerf

(***************************************************************************)
(* ErrorBoundary                                                           *)
(***************************************************************************)
Errors == {"e1", "e2"}

\* static getDerivedStateFromError(error)
GetDerivedStateFromErrorLost(e) == [hasError |-> TRUE, error |-> "null"]

GetDerivedStateFromError(e) == [hasError |-> TRUE, error |-> e]

\* componentDidCatch: this.props.onError?.(error, errorInfo), after logging.
CallsAfterCatch(calls, given) == IF given THEN calls + 1 ELSE calls

\* render(): the fallback prop or the default panel once hasError is set,
\* the children before.
BoundaryRenderPanelOnly(failed, fallbackGiven) ==
    IF failed THEN "panel" ELSE "children"

BoundaryRender(failed, fallbackGiven) ==
    IF failed
    THEN IF fallbackGiven THEN "fallback" ELSE "panel"
    ELSE "children"

\* The boundary as constructed in App: <ErrorBoundary> with neither prop.
BoundaryIdle ==
    /\ hasError = FALSE
    /\ error = "null"
    /\ onErrorProp = FALSE
    /\ fallbackProp = FALSE
    /\ onErrorCalls = 0
    /\ shown = BoundaryRender(FALSE, FALSE)
    /\ thrown = "null"
    /\ boundaryOp = "none"

\* The search box as it is before any input (it takes no step in the list's
\* specifications).
SearchIdle ==
    /\ searchTerm = ""
    /\ deferredSearchTerm = ""
    /\ deferredLane = FALSE
    /\ rendering = FALSE
    /\ wipSearchTerm = ""
    /\ isPending = FALSE
    /\ held = {""}
    /\ burst = <<>>
    /\ lastBurst = <<>>
    /\ inputs = 0
    /\ discarded = 0
    /\ searchItems = "mount"
    /\ filteredItems = FilteredTable[TermIndex("")]

\* First render: parentRef.current is still null, so the virtualizer sees
\* scroll offset 0 and a rect of height 0.
FirstRender ==
    /\ scrollOffset = 0
    /\ outerSize = 0
    /\ virtualItems = GetVirtualIndexes(count, estimateSize, 0, 0, overscan)
    /\ totalSize = GetTotalSize(count, estimateSize)
    /\ threw = FALSE
    /\ rendered = RenderedItems(GetVirtualIndexes(count, estimateSize, 0, 0, overscan),
                                count, estimateSize)
    /\ listItems = ItemsOfRender(TRUE)

InitList ==
    /\ count \in Counts
    /\ estimateSize \in Sizes(count)
    /\ overscan \in Overscans(count)
    /\ FirstRender
    /\ SearchIdle
    /\ BoundaryIdle
    /\ CounterIdle
    /\ PerfIdle
    /\ SeoIdle
    /\ ImageIdle
    /\ TitleIdle
    /\ StoreIdle
    /\ LiveIdle
    /\ FocusIdle

\* The same hook given a count or a size outside its input constraints.
InitListInvalid ==
    /\ count \in (0..MaxCount) \cup BadCounts
    /\ estimateSize \in (1..MaxSize) \cup BadSizes
    /\ overscan \in 0..MaxOverscan
    /\ ~(count >= 0 /\ estimateSize > 0)
    /\ FirstRender
    /\ SearchIdle
    /\ BoundaryIdle
    /\ CounterIdle
    /\ PerfIdle
    /\ SeoIdle
    /\ ImageIdle
    /\ TitleIdle
    /\ StoreIdle
    /\ LiveIdle
    /\ FocusIdle

\* The scroll element is observed to have height h (mount, resize).
Resize(h) ==
    /\ h # outerSize
    /\ outerSize' = h
    /\ RenderList(count, estimateSize, overscan, scrollOffset, h)
    /\ UNCHANGED <<count, estimateSize, overscan, scrollOffset>>
    /\ UNCHANGED restOfList

\* The scroll element is scrolled to offset o.
ScrollStale(o) ==
    /\ o # scrollOffset
    /\ scrollOffset' = o
    /\ RenderList(count, estimateSize, overscan, scrollOffset, outerSize)
    /\ UNCHANGED <<count, estimateSize, overscan, outerSize>>
    /\ UNCHANGED restOfList

Scroll(o) ==
    /\ o # scrollOffset
    /\ scrollOffset' = o
    /\ RenderList(count, estimateSize, overscan, o, outerSize)
    /\ UNCHANGED <<count, estimateSize, overscan, outerSize>>
    /\ UNCHANGED restOfList

NextList ==
    \/ \E h \in Heights(count) : Resize(h)
    \/ \E o \in Offsets(count) : Scroll(o)

SpecList == InitList /\ [][NextList]_vars
SpecListInvalid == InitListInvalid /\ [][NextList]_vars

(***************************************************************************)
(* SearchExample: useState + useDeferredValue                              *)
(***************************************************************************)

\* The values typed into the search box.
Terms == {TermList[k] : k \in 1..Len(TermList)}

\* useDeferredValue(searchTerm) on mount: no initialValue is passed, so the
\* deferred value starts as the value itself.
MountDeferredValuePlaceholder(value) == "..."

MountDeferredValue(value) == value

\* useDeferredValue(searchTerm) on a re-render, prevValue being the deferred
\* value of the last commit: an unchanged value is returned as is; a changed
\* value is held back in an urgent render (the previous one is returned) and
\* adopted in a deferred render.
UpdateDeferredValueNever(prevValue, value, urgent) == prevValue

UpdateDeferredValue(prevValue, value, urgent) ==
    IF value = prevValue THEN value
    ELSE IF urgent THEN prevValue ELSE value

\* Whether that re-render schedules a deferred re-render: when it held the
\* value back.
SpawnsDeferredLane(prevValue, value, urgent) == value # prevValue /\ urgent

\* const isPending = searchTerm !== deferredSearchTerm
IsPendingNonEmpty(term, deferredTerm) == term # ""

IsPendingOf(term, deferredTerm) == term # deferredTerm

\* const items = useMemo(() => Array.from(...), []): with no dependency the
\* array of the first render is kept by every later render.
UseMemoItems(prevItems, depsChanged) ==
    IF depsChanged THEN "rerender" ELSE prevItems

\* An urgent update restarts rendering: a deferred render in progress is
\* thrown away, never committed.
KeepRender == UNCHANGED <<rendering, wipSearchTerm, discarded>>

InterruptRender ==
    /\ rendering' = FALSE
    /\ wipSearchTerm' = ""
    /\ discarded' = IF rendering THEN discarded + 1 ELSE discarded

\* The list as it is after its first render (it takes no step in the search
\* box's specifications).
ListIdle ==
    /\ count = ItemsLength
    /\ estimateSize = EstimateSizePx
    /\ overscan = OverscanItems
    /\ FirstRender

InitSearch ==
    /\ searchTerm = ""
    /\ deferredSearchTerm = MountDeferredValue("")
    /\ deferredLane = FALSE
    /\ rendering = FALSE
    /\ wipSearchTerm = ""
    /\ isPending = IsPendingOf("", MountDeferredValue(""))
    /\ held = {""}
    /\ burst = <<>>
    /\ lastBurst = <<>>
    /\ inputs = 0
    /\ discarded = 0
    /\ searchItems = "mount"
    /\ filteredItems = FilteredTable[TermIndex("")]
    /\ ListIdle
    /\ BoundaryIdle
    /\ CounterIdle
    /\ PerfIdle
    /\ SeoIdle
    /\ ImageIdle
    /\ TitleIdle
    /\ StoreIdle
    /\ LiveIdle
    /\ FocusIdle

\* onChange={(e) => setSearchTerm(e.target.value)} and the urgent render it
\* causes: searchTerm is v at once, the deferred value is held back.
Change(v) ==
    /\ inputs < MaxInputs
    /\ v # searchTerm
    /\ searchTerm' = v
    /\ deferredSearchTerm' = UpdateDeferredValue(deferredSearchTerm, v, TRUE)
    /\ deferredLane' = SpawnsDeferredLane(deferredSearchTerm, v, TRUE)
    /\ InterruptRender
    /\ isPending' = IsPendingOf(v, deferredSearchTerm')
    /\ held' = held \cup {v}
    /\ burst' = Append(burst, v)
    /\ inputs' = inputs + 1
    /\ searchItems' = UseMemoItems(searchItems, FALSE)
    /\ filteredItems' = UseMemoFiltered(filteredItems, deferredSearchTerm,
                                        deferredSearchTerm')
    /\ UNCHANGED lastBurst
    /\ UNCHANGED restOfSearch

\* The scheduled deferred re-render starts: it reads the state as it is now.
DeferredRenderStart ==
    /\ deferredLane
    /\ ~rendering
    /\ rendering' = TRUE
    /\ wipSearchTerm' = searchTerm
    /\ UNCHANGED <<searchTerm, deferredSearchTerm, deferredLane, isPending,
                   held, burst, lastBurst, inputs, discarded, searchItems,
                   filteredItems>>
    /\ UNCHANGED restOfSearch

\* The deferred re-render commits: the deferred value catches up.
DeferredRenderCommit ==
    /\ rendering
    /\ deferredSearchTerm' =
           UpdateDeferredValue(deferredSearchTerm, wipSearchTerm, FALSE)
    /\ deferredLane' = SpawnsDeferredLane(deferredSearchTerm, wipSearchTerm, FALSE)
    /\ rendering' = FALSE
    /\ wipSearchTerm' = ""
    /\ isPending' = IsPendingOf(wipSearchTerm, deferredSearchTerm')
    /\ lastBurst' = burst
    /\ burst' = <<>>
    /\ searchItems' = UseMemoItems(searchItems, FALSE)
    /\ filteredItems' = UseMemoFiltered(filteredItems, deferredSearchTerm,
                                        deferredSearchTerm')
    /\ UNCHANGED <<searchTerm, held, inputs, discarded>>
    /\ UNCHANGED restOfSearch

NextSearch ==
    \/ \E v \in Terms : Change(v)
    \/ DeferredRenderStart
    \/ DeferredRenderCommit

SpecSearch == InitSearch /\ [][NextSearch]_vars

\* The scheduler runs a scheduled deferred render once the thread is free,
\* and a render left alone runs to its commit.
SpecSearchFair ==
    /\ InitSearch
    /\ [][NextSearch]_vars
    /\ WF_vars(DeferredRenderStart)
    /\ WF_vars(DeferredRenderCommit)

(***************************************************************************)
(* ErrorBoundary around the application (App)                              *)
(***************************************************************************)

\* An ErrorBoundary with any props around the list, after its first render.
InitBoundary ==
    /\ hasError = FALSE
    /\ error = "null"
    /\ onErrorProp \in BOOLEAN
    /\ fallbackProp \in BOOLEAN
    /\ onErrorCalls = 0
    /\ shown = BoundaryRender(FALSE, fallbackProp)
    /\ thrown = "null"
    /\ boundaryOp = "none"
    /\ ListIdle
    /\ SearchIdle
    /\ CounterIdle
    /\ PerfIdle
    /\ SeoIdle
    /\ ImageIdle
    /\ TitleIdle
    /\ StoreIdle
    /\ LiveIdle
    /\ FocusIdle

\* The render of a child (a visible item of the list) raises e: the boundary
\* takes the state of getDerivedStateFromError, componentDidCatch reports,
\* and render() replaces the children, which are unmounted: the list draws
\* nothing any more, and its last viewport state and range are not written.
RenderError(e) ==
    /\ ~hasError
    /\ thrown' = e
    /\ hasError' = GetDerivedStateFromError(e).hasError
    /\ error' = GetDerivedStateFromError(e).error
    /\ onErrorCalls' = CallsAfterCatch(onErrorCalls, onErrorProp)
    /\ shown' = BoundaryRender(hasError', fallbackProp)
    /\ rendered' = <<>>
    /\ boundaryOp' = "catch"
    /\ UNCHANGED <<onErrorProp, fallbackProp>>
    /\ UNCHANGED <<count, estimateSize, overscan, scrollOffset, outerSize,
                   virtualItems, totalSize, threw, listItems>>
    /\ UNCHANGED restOfBoundary

\* The parent renders the boundary again, with or without a fallback: the
\* instance keeps its state and render() runs.
RerenderBoundary(fallbackGiven) ==
    /\ fallbackProp' = fallbackGiven
    /\ shown' = BoundaryRender(hasError, fallbackGiven)
    /\ boundaryOp' = "render"
    /\ UNCHANGED <<hasError, error, onErrorProp, onErrorCalls, thrown>>
    /\ UNCHANGED listVars
    /\ UNCHANGED restOfBoundary

\* The children handle events only while they are mounted.
NextBoundary ==
    \/ \E h \in Heights(count) : ~hasError /\ Resize(h)
    \/ \E o \in Offsets(count) : ~hasError /\ Scroll(o)
    \/ \E e \in Errors : RenderError(e)
    \/ \E f \in BOOLEAN : RerenderBoundary(f)

SpecBoundary == InitBoundary /\ [][NextBoundary]_vars

(***************************************************************************)
(* The counter, alone                                                      *)
(***************************************************************************)
InitCounter ==
    /\ CounterIdle
    /\ PerfIdle
    /\ SeoIdle
    /\ ImageIdle
    /\ TitleIdle
    /\ StoreIdle
    /\ LiveIdle
    /\ FocusIdle
    /\ ListIdle
    /\ SearchIdle
    /\ BoundaryIdle

NextCounter ==
    \/ ClickIncrement
    \/ ClickDecrement
    \/ ClickReset
    \/ \E amount \in (0 - MaxAmount)..MaxAmount : CallIncrementByAmount(amount)
    \/ \E n \in (0 - MaxStore)..MaxStore : CallSetState(n)
    \/ Reload

SpecCounter == InitCounter /\ [][NextCounter]_vars

(***************************************************************************)
(* The focus utilities, alone                                              *)
(***************************************************************************)
InitFocus ==
    /\ kinds \in [Els -> Kinds]
    /\ activeElement = Outside
    /\ listener = FALSE
    /\ firstFocusable = NoEl
    /\ lastFocusable = NoEl
    /\ cleanupKind = "none"
    /\ lastKey = "none"
    /\ keyFrom = Outside
    /\ ListIdle
    /\ SearchIdle
    /\ BoundaryIdle
    /\ CounterIdle
    /\ PerfIdle
    /\ SeoIdle
    /\ ImageIdle
    /\ TitleIdle
    /\ StoreIdle
    /\ LiveIdle

NextFocus ==
    \/ TrapFocus
    \/ Cleanup
    \/ \E shift \in BOOLEAN : KeyTab(shift)
    \/ \E e \in Els \cup {Outside} : Focus(e)
    \/ \E e \in Els, k \in Kinds : ChildrenChange(e, k)

SpecFocus == InitFocus /\ [][NextFocus]_vars

(***************************************************************************)
(* useLiveRegion, alone                                                    *)
(***************************************************************************)
InitLive ==
    /\ LiveIdle
    /\ ListIdle
    /\ SearchIdle
    /\ BoundaryIdle
    /\ CounterIdle
    /\ PerfIdle
    /\ SeoIdle
    /\ ImageIdle
    /\ TitleIdle
    /\ StoreIdle
    /\ FocusIdle

NextLive ==
    \/ \E m \in Messages, p \in Politenesses, d \in Durations : Announce(m, p, d)
    \/ ClearMessage
    \/ Tick
    \/ \E id \in 1..MaxAnnounces : TimeoutFires(id)
    \/ UnmountLive

SpecLive == InitLive /\ [][NextLive]_vars

\* Time passes and due timeouts run.
SpecLiveFair ==
    /\ SpecLive
    /\ WF_vars(Tick)
    /\ WF_vars(\E id \in 1..MaxAnnounces : TimeoutFires(id))



(***************************************************************************)
(* createFocusStore, alone                                                *)
(***************************************************************************)
InitStore ==
    /\ kinds \in [Els -> Kinds]
    /\ activeElement = Outside
    /\ listener = FALSE
    /\ firstFocusable = NoEl
    /\ lastFocusable = NoEl
    /\ cleanupKind = "none"
    /\ lastKey = "none"
    /\ keyFrom = Outside
    /\ StoreIdle
    /\ LiveIdle
    /\ ListIdle
    /\ SearchIdle
    /\ BoundaryIdle
    /\ CounterIdle
    /\ PerfIdle
    /\ SeoIdle
    /\ ImageIdle
    /\ TitleIdle

NextStore ==
    \/ StoreFocus
    \/ RestoreFocus
    \/ \E e \in Els \cup {Outside} : Focus(e)
    \/ \E e \in Els, k \in Kinds : ChildrenChange(e, k)

SpecStore == InitStore /\ [][NextStore]_vars

(***************************************************************************)
(* usePageTitle, alone                                                     *)
(***************************************************************************)
InitTitle ==
    /\ TitleIdle
    /\ CounterIdle
    /\ PerfIdle
    /\ SeoIdle
    /\ ImageIdle
    /\ StoreIdle
    /\ LiveIdle
    /\ FocusIdle
    /\ ListIdle
    /\ SearchIdle
    /\ BoundaryIdle

NextTitle ==
    \/ \E c \in Comps, t \in PageTitles : MountTitle(c, t)
    \/ \E c \in Comps, t \in PageTitles : ChangeTitle(c, t)
    \/ \E c \in Comps : UnmountTitle(c)

SpecTitle == InitTitle /\ [][NextTitle]_vars

(***************************************************************************)
(* OptimizedImage, alone                                                   *)
(***************************************************************************)
\* Mounted with any props; the mount effect has run.
InitImage ==
    /\ srcProp \in Srcs
    /\ priorityProp \in BOOLEAN
    /\ blurProp \in Blurs
    /\ isLoaded = FALSE
    /\ imageSrc = InitialImageSrc(blurProp, srcProp)
    /\ preloads = EffectPreloads({}, srcProp, priorityProp)
    /\ mainPending = TRUE
    /\ placeholderShown = PlaceholderRendered(blurProp, FALSE)
    /\ shimmerShown = ShimmerRendered(FALSE)
    /\ CounterIdle
    /\ PerfIdle
    /\ SeoIdle
    /\ TitleIdle
    /\ StoreIdle
    /\ LiveIdle
    /\ FocusIdle
    /\ ListIdle
    /\ SearchIdle
    /\ BoundaryIdle

NextImage ==
    \/ MainImageLoads
    \/ \E src \in Srcs : PreloadLoads(src)
    \/ \E src \in Srcs, priority \in BOOLEAN, blur \in Blurs :
           RenderImage(src, priority, blur)

SpecImage == InitImage /\ [][NextImage]_vars

(***************************************************************************)
(* SEO, alone                                                              *)
(***************************************************************************)
\* index.html may already hold a description.
InitSeo ==
    /\ head \in {<<>>, <<Meta("name", "description", "static")>>}
    /\ seoRuns = 0
    /\ lastCreated = 0
    /\ lastUpdated = 0
    /\ CounterIdle
    /\ PerfIdle
    /\ ImageIdle
    /\ TitleIdle
    /\ StoreIdle
    /\ LiveIdle
    /\ FocusIdle
    /\ ListIdle
    /\ SearchIdle
    /\ BoundaryIdle

NextSeo ==
    \E kind \in SeoKinds, v \in SeoValues : SeoEffect(SeoProps(kind, v))

SpecSeo == InitSeo /\ [][NextSeo]_vars

(***************************************************************************)
(* PerformanceMonitor, alone                                               *)
(***************************************************************************)
InitPerf ==
    /\ dev \in BOOLEAN
    /\ hasTiming \in BOOLEAN
    /\ pageLoaded = FALSE
    /\ effectRuns = 0
    /\ webVitalsInits = 0
    /\ importsPending = 0
    /\ vitalsHandlers = 0
    /\ vitalsErrors = 0
    /\ loadListeners = 0
    /\ summaryTimers = <<>>
    /\ perfCalls = 0
    /\ perfGroups = 0
    /\ CounterIdle
    /\ SeoIdle
    /\ ImageIdle
    /\ TitleIdle
    /\ StoreIdle
    /\ LiveIdle
    /\ FocusIdle
    /\ ListIdle
    /\ SearchIdle
    /\ BoundaryIdle

NextPerf ==
    \/ MountPerf
    \/ StrictModeRerun
    \/ WindowLoad
    \/ TickPerf
    \/ SummaryTimeoutFires
    \/ \E ok \in BOOLEAN : WebVitalsImportSettles(ok)

SpecPerf == InitPerf /\ [][NextPerf]_vars

\* The page does load, React does run the effects it has scheduled, time
\* passes and due timers fire.
SpecPerfFair ==
    /\ SpecPerf
    /\ WF_vars(MountPerf)
    /\ WF_vars(StrictModeRerun)
    /\ WF_vars(WindowLoad)
    /\ WF_vars(TickPerf)
    /\ WF_vars(SummaryTimeoutFires)
    /\ WF_vars(\E ok \in BOOLEAN : WebVitalsImportSettles(ok))

(***************************************************************************)
(* Claims about the windowing                                              *)
(***************************************************************************)
HasItems == Len(virtualItems) > 0
StartIndex == virtualItems[1]
EndIndex == virtualItems[Len(virtualItems)]
IndexesInRange == \A k \in 1..Len(virtualItems) : virtualItems[k] \in 0..(count - 1)
CeilDiv(a, b) == (a + b - 1) \div b
ComponentAt(o) ==
    /\ count = ItemsLength
    /\ estimateSize = EstimateSizePx
    /\ overscan = OverscanItems
    /\ outerSize = ContainerPx
    /\ scrollOffset = o

\* C1: for every valid input with at least one item, the last index of the
\* visible range is below the item count: every index handed to the render
\* layer is in 0..count-1.
C1_EndIndexBelowCount ==
    (ValidInput /\ count >= 1) =>
        /\ IndexesInRange
        /\ (HasItems => EndIndex < count)

\* C1 witness: a range whose overscan reaches past the last item and is cut
\* at count-1.
C1_Witness ==
    /\ ValidInput /\ count >= 2 /\ overscan >= 1 /\ outerSize > 0
    /\ HasItems /\ EndIndex = count - 1
    /\ CalculateRange(count, estimateSize, scrollOffset, outerSize).endIndex
           + overscan > count - 1

\* C2 as stated: with at least one item every viewport (any height >= 0)
\* gives a range with startIndex <= endIndex; with no item the range is
\* empty.
C2_Original ==
    /\ (ValidInput /\ count >= 1) => (HasItems /\ StartIndex <= EndIndex)
    /\ (ValidInput /\ count = 0) => ~HasItems

\* C2 amended: with at least one item and a container of positive height,
\* also when scrolled to or past the end of the list, startIndex <= endIndex;
\* with no item, or a container of height 0, the range is empty.
C2_RangeOrdered ==
    /\ (ValidInput /\ count >= 1 /\ outerSize > 0) =>
           (HasItems /\ StartIndex <= EndIndex)
    /\ (ValidInput /\ (count = 0 \/ outerSize = 0)) => ~HasItems

\* C2 witness: a non-empty range with the scroll offset past the end of the
\* list.
C2_Witness ==
    /\ ValidInput /\ count >= 1 /\ outerSize > 0
    /\ scrollOffset >= count * estimateSize
    /\ HasItems /\ StartIndex <= EndIndex

\* C3 as stated: startIndex = max(0, floor(scrollOffset/size) - overscan) and
\* endIndex = min(count-1, startIndex + ceil(height/size) + 2*overscan).
C3_Original ==
    (ValidInput /\ count >= 1) =>
        /\ HasItems
        /\ StartIndex = Max(0, (scrollOffset \div estimateSize) - overscan)
        /\ EndIndex = Min(count - 1,
                          StartIndex + CeilDiv(outerSize, estimateSize)
                              + 2 * overscan)

\* The first and the last item in view: the item holding the scroll offset
\* (the last item when scrolled past the end) and the item holding the bottom
\* edge of the viewport.
FirstInView == Min(count - 1, scrollOffset \div estimateSize)
LastInView ==
    Min(count - 1,
        Max(FirstInView, CeilDiv(scrollOffset + outerSize, estimateSize) - 1))

\* C3 amended: with at least one item and a container of positive height,
\* startIndex = max(0, first - overscan) and endIndex = min(count-1, last +
\* overscan), first and last being the first and last item in view; with
\* 10000 items of 80px, a 500px container and overscan 5 the range is (0, 11)
\* at scroll offset 0 and (95, 111) at scroll offset 8000.
C3_RangeFormula ==
    /\ (ValidInput /\ count >= 1 /\ outerSize > 0) =>
           /\ HasItems
           /\ StartIndex = Max(0, FirstInView - overscan)
           /\ EndIndex = Min(count - 1, LastInView + overscan)
           /\ virtualItems = IndexesFromTo(StartIndex, EndIndex)
    /\ ComponentAt(0) => (StartIndex = 0 /\ EndIndex = 11)
    /\ ComponentAt(8000) => (StartIndex = 95 /\ EndIndex = 111)

\* C3 witness: the component scrolled to 8000 shows items 95..111.
C3_Witness == ComponentAt(8000) /\ HasItems /\ StartIndex = 95 /\ EndIndex = 111

\* C4: the height given to the spacer is count * estimateSize in every
\* viewport state, however many items are rendered.
C4_TotalSizeExact == ValidInput => totalSize = count * estimateSize

\* C4 witness: fewer items rendered than the list holds, after a scroll.
C4_Witness ==
    /\ ValidInput /\ HasItems /\ Len(virtualItems) < count /\ scrollOffset > 0
    /\ totalSize = count * estimateSize

\* C5: with no item the range is empty and the total height is 0; with a
\* container of height 0 a (possibly empty) range within 0..count-1 comes
\* back; neither case raises an error.
C5_EdgeCases ==
    /\ (ValidInput /\ count = 0) => (~HasItems /\ totalSize = 0 /\ ~threw)
    /\ (ValidInput /\ outerSize = 0) => (IndexesInRange /\ ~threw)

\* C5 witness: the list with no item in a container of positive height,
\* scrolled, and a list with items in a container of height 0.
C5_Witness ==
    \/ (ValidInput /\ count = 0 /\ outerSize > 0 /\ scrollOffset > 0 /\ ~HasItems)
    \/ (ValidInput /\ count >= 1 /\ outerSize = 0 /\ scrollOffset > 0)

Last(q) == q[Len(q)]

\* C7: deferred is always the initial value or a value urgent held at some
\* earlier point.
C7_DeferredWasHeld == deferredSearchTerm \in held

\* C7 witness: deferred holds a typed value that urgent has already left.
C7_Witness ==
    /\ deferredSearchTerm # ""
    /\ deferredSearchTerm # searchTerm
    /\ deferredSearchTerm \in held

\* C8: once input events stop, deferred eventually equals urgent, and the two
\* stay equal until the next input event.
C8_EventuallyEqual ==
    /\ <>[](deferredSearchTerm = searchTerm)
    /\ [][(deferredSearchTerm = searchTerm /\ searchTerm' = searchTerm)
              => deferredSearchTerm' = searchTerm']_vars

\* C8 witness: all input events done, deferred caught up by a deferred
\* render with a typed value.
C8_Witness ==
    /\ inputs = MaxInputs
    /\ lastBurst # <<>>
    /\ searchTerm # ""
    /\ deferredSearchTerm = searchTerm

\* C9: when deferred changes, it changes to the value urgent was set to last;
\* a value set and overwritten before the deferred update fired is skipped.
C9_NoStaleValue ==
    [][deferredSearchTerm' # deferredSearchTerm
           => (burst # <<>> /\ deferredSearchTerm' = Last(burst))]_vars

\* C9 witness: urgent was set to v1 then to v2 # v1 before the deferred
\* update fired, and deferred went from its old value to v2.
C9_Witness ==
    /\ Len(lastBurst) >= 2
    /\ lastBurst[Len(lastBurst) - 1] # Last(lastBurst)
    /\ burst = <<>>
    /\ deferredSearchTerm = Last(lastBurst)

\* C10: isPending is true exactly when searchTerm differs from
\* deferredSearchTerm.
C10_IsPendingIffDiffer == isPending <=> (searchTerm # deferredSearchTerm)

\* C10 witness: pending while a deferred render is in progress.
C10_Witness == isPending /\ rendering /\ searchTerm # deferredSearchTerm

\* C11: at most one deferred update is scheduled, and it is for the latest
\* urgent value: a deferred render in progress is the scheduled one and
\* carries the current searchTerm (an older one was thrown away when the
\* newer value arrived), and an update is scheduled only while the two values
\* differ.
C11_ScheduledForLatest ==
    /\ rendering => (deferredLane /\ wipSearchTerm = searchTerm)
    /\ deferredLane => searchTerm # deferredSearchTerm
    /\ discarded <= inputs

\* C11 witness: a deferred render was thrown away by a newer value, and the
\* render now in progress carries that newer value.
C11_Witness ==
    /\ discarded >= 1
    /\ rendering
    /\ Len(burst) >= 2
    /\ burst[Len(burst) - 1] # Last(burst)
    /\ wipSearchTerm = Last(burst)

(***************************************************************************)
(* Claims about the render layer of the list                               *)
(***************************************************************************)
IndexSet(q) == {q[k] : k \in 1..Len(q)}

\* C12: the item elements drawn are exactly the indexes of the current
\* visible range, one each, and each is placed at index * estimateSize.
C12_RenderedIsRange ==
    ValidInput =>
        /\ Len(rendered) = Len(virtualItems)
        /\ {rendered[k].index : k \in 1..Len(rendered)} = IndexSet(virtualItems)
        /\ \A k \in 1..Len(rendered) :
               rendered[k].top = rendered[k].index * estimateSize

\* C12 witness: a scrolled list drawing some items, not from the top and not
\* all of them.
C12_Witness ==
    /\ ValidInput /\ scrollOffset > 0 /\ HasItems
    /\ Len(rendered) >= 2 /\ Len(rendered) < count
    /\ rendered[1].index >= 1 /\ rendered[1].top >= estimateSize

C15_Original == listItems = "mount" /\ searchItems = "mount"

(***************************************************************************)
(* Claims about the ErrorBoundary                                          *)
(***************************************************************************)
RenderRaised == thrown = "null" /\ thrown' # "null"
ViewportKept == UNCHANGED <<scrollOffset, outerSize, virtualItems>>

\* C14 as stated: when the render of a visible item raises an error,
\* hasError becomes true, the error is recorded, onError is called, and
\* viewport state and visible range are left unchanged.
C14_Original ==
    [][RenderRaised =>
          /\ hasError' /\ error' = thrown'
          /\ onErrorCalls' = onErrorCalls + 1
          /\ ViewportKept]_vars

\* C14 amended: when the render of a visible item raises an error, hasError
\* becomes true, the error is recorded, onError is called if the boundary was
\* given one (the boundary in App is given none) and not otherwise, and
\* viewport state and visible range are left unchanged.
C14_ErrorReachesBoundary ==
    [][RenderRaised =>
          /\ hasError' /\ error' = thrown'
          /\ (onErrorProp => onErrorCalls' = onErrorCalls + 1)
          /\ (~onErrorProp => onErrorCalls' = onErrorCalls)
          /\ ViewportKept]_vars

\* C14 witness: an error caught, and reported to onError, with the list
\* scrolled to 8000 and its range still 95..111.
C14_Witness ==
    /\ hasError /\ error \in Errors /\ error = thrown
    /\ onErrorProp /\ onErrorCalls = 1
    /\ ComponentAt(8000) /\ virtualItems = IndexesFromTo(95, 111)

(***************************************************************************)
(* Claims about the counter store                                          *)
(***************************************************************************)

\* C16: from any count n, increment leaves the store with n + 1 and Counter
\* shows n + 1.
C16_Increment ==
    counterOp = "increment" =>
        (storeCount = prevCount + 1 /\ displayed = ToString(prevCount + 1))

\* C16 witness: an increment from a count other than 0.
C16_Witness ==
    /\ counterOp = "increment" /\ prevCount # 0
    /\ storeCount = prevCount + 1 /\ displayed = ToString(storeCount)

\* C17: from any count n, also n <= 0, decrement leaves the store with n - 1
\* (no lower clamp) and Counter shows n - 1.
C17_Decrement ==
    counterOp = "decrement" =>
        (storeCount = prevCount - 1 /\ displayed = ToString(prevCount - 1))

\* C17 witness: a decrement from a count <= 0, to a negative count.
C17_Witness ==
    /\ counterOp = "decrement" /\ prevCount <= 0
    /\ storeCount = prevCount - 1 /\ storeCount < 0
    /\ displayed = ToString(storeCount)

\* C18: from any count, reset sets count to 0; a reset after a reset changes
\* nothing.
C18_Reset ==
    /\ counterOp = "reset" => (storeCount = 0 /\ displayed = "0")
    /\ (counterOp = "reset" /\ prevOp = "reset") => storeCount = prevCount

\* C18 witness: a reset from a non-zero count reached by incrementByAmount.
C18_Witness ==
    /\ counterOp = "reset" /\ prevOp = "incrementByAmount"
    /\ prevCount # 0 /\ storeCount = 0

\* C19: the count stored under 'counter-storage' is the count in memory
\* (nothing is stored only while the count is still the initial 0), and a
\* store rehydrated from it starts with the count the last session ended
\* with.
C19_PersistedIsCount ==
    /\ ~storage.none => storage.state.count = storeCount
    /\ storage.none => storeCount = 0
    /\ counterOp = "reload" =>
           (storeCount = prevCount /\ displayed = ToString(prevCount))

\* C19 witness: a reload that starts with a non-zero count.
C19_Witness ==
    /\ counterOp = "reload" /\ storeCount # 0 /\ storeCount = prevCount
    /\ ~storage.none /\ storage.state.count = storeCount

(***************************************************************************)
(* Claims about the focus utilities                                        *)
(***************************************************************************)
FocusableNow == getFocusableElements(kinds)

KeyWhileTrapped ==
    /\ lastKey # "none"
    /\ listener
    /\ keyFrom \in Els
    /\ CanFocus(keyFrom, kinds)

\* C20: while a trap is active and focus is on a focusable descendant, a Tab
\* or Shift+Tab leaves the focus inside the element; Tab on the last
\* focusable element moves it to the first, Shift+Tab on the first to the
\* last.
C20_Original ==
    KeyWhileTrapped =>
        /\ activeElement \in Els
        /\ (lastKey = "Tab" /\ keyFrom = Last(FocusableNow))
               => activeElement = Head(FocusableNow)
        /\ (lastKey = "ShiftTab" /\ keyFrom = Head(FocusableNow))
               => activeElement = Last(FocusableNow)

(***************************************************************************)
(* Claims about the live region                                            *)
(***************************************************************************)

\* The last announce was made while mounted and nothing but time has
\* happened to the hook since.
AnnouncedAlone == annSeq > 0 /\ annMounted /\ lrMounted /\ alone

C21_Safe ==
    /\ (AnnouncedAlone /\ lastAnn.d > 0 /\ elapsed < lastAnn.d) =>
           /\ message = lastAnn.m
           /\ lrShown = LiveRegionComponent(lastAnn.m, lastAnn.p)
           /\ ~autoCleared
    /\ (AnnouncedAlone /\ autoCleared) =>
           /\ lastAnn.d > 0 /\ elapsed >= lastAnn.d
           /\ message = ""
           /\ lrShown = [message |-> "null"]
    /\ (AnnouncedAlone /\ lastAnn.d <= 0) =>
           /\ message = lastAnn.m
           /\ ~autoCleared
           /\ timers = {}

\* C21: after announce(m, p, d) with d > 0 and no later announce or clear,
\* the message is m until d has elapsed and is then cleared to the empty
\* string, LiveRegionComponent being null from then on; with d <= 0 the
\* message is never cleared by a timer.
C21_ClearedAfterDuration ==
    /\ []C21_Safe
    /\ \A n \in 1..MaxAnnounces :
           (annSeq = n /\ AnnouncedAlone /\ lastAnn.d > 0)
               ~> (\/ (message = "" /\ lrShown = [message |-> "null"])
                   \/ annSeq # n
                   \/ ~lrMounted)

\* C21 witness: the timer of announce(m, p, d), m not empty, has fired at d.
C21_Witness ==
    /\ AnnouncedAlone /\ autoCleared /\ lrOp = "fire"
    /\ lastAnn.m # "" /\ lastAnn.d = MaxDuration /\ elapsed = lastAnn.d
    /\ message = "" /\ lrShown = [message |-> "null"]

\* C23: an announce or a clear cancels the timer of an earlier announce: the
\* timer that clears a message is the one of the latest announce, at most
\* one timer is pending, and no timer fires after the component has
\* unmounted.
C23_Original ==
    /\ Cardinality(timers) <= 1
    /\ lrOp = "fire" => firedId = annSeq
    /\ lrOp = "fire" => lrMounted

\* C22: restore() returns the focus to the element that had it at the most
\* recent store() and forgets the element; a restore with nothing stored
\* (a second restore, or one before any store) moves no focus.
C22_Original ==
    storeOp = "restore" =>
        /\ previouslyFocusedElement = NoEl
        /\ restoreHad => restoreResult = "stored"
        /\ ~restoreHad => restoreResult = "stayed"

\* C22, amended: restore() calls focus() on the stored element, so the focus
\* returns to it only if it can still take focus; otherwise the focus stays
\* where it is.  The element is forgotten either way.
C22_RestoresIfFocusable ==
    storeOp = "restore" =>
        /\ previouslyFocusedElement = NoEl
        /\ (restoreHad /\ restoreCould) => restoreResult = "stored"
        /\ (restoreHad /\ ~restoreCould /\ restoreAway) => restoreResult = "stayed"
        /\ ~restoreHad => restoreResult = "stayed"

\* C22 witness: a restore moved the focus back to the stored element.
C22_Witness ==
    /\ storeOp = "restore" /\ restoreHad /\ restoreCould /\ restoreAway
    /\ restoreResult = "stored" /\ activeElement \in Els
    /\ previouslyFocusedElement = NoEl

C24_State ==
    /\ cleanupKind = "none" => ~listener
    /\ cleanupKind = "noop" => ~listener
    /\ cleanupKind = "remove" => (listener /\ firstFocusable # NoEl)
    /\ (lastKey # "none" /\ ~listener) =>
           activeElement = DefaultTab(lastKey = "ShiftTab", keyFrom, kinds)

C24_Step ==
    /\ (cleanupKind = "none" /\ cleanupKind' # "none") =>
           IF Len(getFocusableElements(kinds)) = 0
           THEN cleanupKind' = "noop" /\ ~listener'
           ELSE cleanupKind' = "remove" /\ listener'
    /\ (cleanupKind # "none" /\ cleanupKind' = "none") =>
           /\ ~listener'
           /\ cleanupKind = "noop" => UNCHANGED listener

\* C24: the cleanup returned by trapFocus removes the listener, so that a
\* Tab on the last element or a Shift+Tab on the first is no longer
\* intercepted and takes the browser's default course; for an element with
\* no focusable descendant trapFocus registers no listener and its cleanup
\* changes nothing.
C24_CleanupRemovesTrap == []C24_State /\ [][C24_Step]_vars

\* C24 witness: after the cleanup, Tab on the element captured as last was
\* not intercepted and the focus left the element.
C24_Witness ==
    /\ lastKey = "Tab" /\ ~listener /\ cleanupKind = "none"
    /\ lastFocusable # NoEl /\ keyFrom = lastFocusable
    /\ activeElement = Outside

(***************************************************************************)
(* Claims about the document head                                          *)
(***************************************************************************)

\* C25: once every component that uses usePageTitle has unmounted,
\* document.title is the title that was in place before the first of them
\* mounted.
C25_Original ==
    (ptEver /\ \A c \in Comps : ~ptMounted[c]) => documentTitle = baseTitle

(***************************************************************************)
(* Claims about the ErrorBoundary after a catch                            *)
(***************************************************************************)

FallbackOrPanel ==
    /\ fallbackProp => shown = "fallback"
    /\ ~fallbackProp => shown = "panel"
    /\ rendered = <<>>

C27_Original ==
    isLoaded =>
        /\ imageSrc = srcProp
        /\ imageSrc # BlurURL
        /\ ~placeholderShown
        /\ ~shimmerShown

(***************************************************************************)
(* Claims about the search results                                         *)
(***************************************************************************)

\* Two characters are the same letter, whatever their case.
LetterPairs ==
    {<<"I", "i">>, <<"T", "t">>, <<"E", "e">>, <<"M", "m">>, <<"D", "d">>,
     <<"R", "r">>}
SameIgnoringCase(c, d) ==
    c = d \/ <<c, d>> \in LetterPairs \/ <<d, c>> \in LetterPairs

ContainsIgnoringCase(q, sub) ==
    \E k \in 0..(Len(q) - Len(sub)) :
        \A j \in 1..Len(sub) : SameIgnoringCase(q[k + j], sub[j])

NameOrDescriptionContains(i, t) ==
    \/ ContainsIgnoringCase(ItemName(i), TermChars(t))
    \/ ContainsIgnoringCase(ItemDescription(i), TermChars(t))

\* q lists, in dataset order, the first at most 100 items that contain t.
IsFirstMatches(q, t) ==
    /\ Len(q) <= 100
    /\ \A k \in 1..Len(q) :
           /\ q[k] \in 0..(DatasetLength - 1)
           /\ NameOrDescriptionContains(q[k], t)
           /\ k > 1 => q[k - 1] < q[k]
    /\ LET upTo == IF Len(q) < 100 THEN DatasetLength - 1 ELSE q[Len(q)]
       IN  \A i \in 0..upTo :
               NameOrDescriptionContains(i, t) => \E k \in 1..Len(q) : q[k] = i

ResultsAreFirstMatches ==
    [k \in 1..Len(TermList) |-> IsFirstMatches(FilteredTable[k], TermList[k])]

\* C28: in every state the displayed results are the first at most 100
\* items, in dataset order, whose name or description contains
\* deferredSearchTerm whatever the case (the first 100 items when it is
\* empty); so whenever isPending is false they are the results for the
\* current searchTerm.
C28_ResultsOfDeferredTerm ==
    /\ filteredItems = FilteredTable[TermIndex(deferredSearchTerm)]
    /\ ResultsAreFirstMatches[TermIndex(deferredSearchTerm)]
    /\ ~isPending =>
           /\ filteredItems = FilteredTable[TermIndex(searchTerm)]
           /\ ResultsAreFirstMatches[TermIndex(searchTerm)]

\* C28 witness: the results for "ITEM 1" are shown and current: 100 items,
\* from item 1 to item 188.
C28_Witness ==
    /\ ~isPending /\ searchTerm = "ITEM 1" /\ deferredSearchTerm = "ITEM 1"
    /\ Len(filteredItems) = 100
    /\ filteredItems[1] = 1 /\ filteredItems[12] = 100
    /\ filteredItems[100] = 188

(***************************************************************************)
(* Claims about SEO                                                        *)
(***************************************************************************)

WrittenKeys == {<<e.tag, e.attribute, e.selector>> : e \in {head[k] : k \in 1..Len(head)}}
CountOf(h, key) ==
    Cardinality({k \in 1..Len(h) :
                    <<h[k].tag, h[k].attribute, h[k].selector>> = key})

C29_AtMostOne == \A key \in WrittenKeys : CountOf(head, key) = 1

C29_InPlace ==
    /\ Len(head') >= Len(head)
    /\ \A k \in 1..Len(head) :
           /\ head'[k].tag = head[k].tag
           /\ head'[k].attribute = head[k].attribute
           /\ head'[k].selector = head[k].selector
    /\ \A k \in (Len(head) + 1)..Len(head') :
           CountOf(head, <<head'[k].tag, head'[k].attribute, head'[k].selector>>) = 0

\* C29: after any runs of the SEO effect, document.head holds at most one
\* meta element per (attribute, name) pair, at most one canonical link and
\* at most one dynamic JSON-LD script: a run writes to the element that
\* exists and creates one only when there is none.
C29_OneElementPerKey == []C29_AtMostOne /\ [][C29_InPlace]_vars

\* C29 witness: a later run of the effect for a full page created nothing
\* and wrote to the elements already there.
C29_Witness ==
    /\ seoRuns >= 2 /\ lastCreated = 0 /\ lastUpdated = 20
    /\ Len(head) = 20 /\ C29_AtMostOne

(***************************************************************************)
(* Claims about PerformanceMonitor                                         *)
(***************************************************************************)

\* C30: in development mode, once the page has loaded and
\* PerformanceMonitor has mounted, logPerformanceSummary is eventually
\* called, and it is never called more than once.
C30_Original ==
    /\ [](dev => perfCalls <= 1)
    /\ (dev /\ pageLoaded /\ effectRuns > 0) ~> (perfCalls = 1)

====
